---- MODULE Spec2Model ----
(***************************************************************************)
(* Model of src/app.py: a Streamlit page that validates a profile form,    *)
(* records usage, computes and categorises the BMI, asks a remote model    *)
(* for recommendations and renders the results.                            *)
(*                                                                         *)
(* Representation.  A Python str is a sequence of tokens (single           *)
(* characters for the numeric fields, so that float() and int() are        *)
(* modelled by parsing).  A Python float is an exact fraction              *)
(* [num, den] with den > 0.  None is the record None.  The result of a     *)
(* call that may raise is Ret(v) or Raise(e).                              *)
(***************************************************************************)
EXTENDS Integers, Sequences, FiniteSets, TLC

VARIABLES
    pc,              \* position of the script: "startup", "halted", "form",
                     \* "validate", "bmi", "generate", "render", "chart", "done"
    google_api_key,  \* os.getenv("GENAI_API_KEY")
    now,             \* datetime.now(), a logical clock
    form,            \* the widgets' values at the last submission
    usage_data,      \* st.session_state.usage_data
    input_data,      \* the handler's input_data dict
    bmi,             \* the handler's bmi
    recommendations, \* the handler's recommendations
    sent_prompt,     \* the prompts model.generate_content was called with, this run
    remote_calls,    \* number of calls of model.generate_content, this session
    remote_result,   \* what the last call of model.generate_content did
    rendered,        \* the elements the current run has put on the page
    fault,           \* the current run ended in an unhandled exception
    submissions,     \* number of submissions that passed validation
    cat_in,          \* argument of categorize_bmi (function harness)
    cat_out          \* result of categorize_bmi (function harness)

vars == <<pc, google_api_key, now, form, usage_data, input_data, bmi,
          recommendations, sent_prompt, remote_calls, remote_result,
          rendered, fault, submissions, cat_in, cat_out>>

session_vars == <<pc, google_api_key, now, form, usage_data, input_data, bmi,
                  recommendations, sent_prompt, remote_calls, remote_result,
                  rendered, fault, submissions>>

-----------------------------------------------------------------------------
(* Bounds *)

MaxSubmits == 2          \* submissions per session
MaxBmiHundredths == 3300 \* categorize_bmi harness: bmi up to 33.00
MinBmiHundredths == 100  \* categorize_bmi harness: bmi down to -1.00

-----------------------------------------------------------------------------
(* Python values *)

None == [tag |-> "None"]
Str(s) == [tag |-> "str", s |-> s]
Float(n, d) == [tag |-> "float", num |-> n, den |-> d]
Ret(v) == [tag |-> "ret", val |-> v]
Raise(e) == [tag |-> "raise", val |-> e]

\* bool(x) of a str (a sequence of tokens): the empty string is falsy
StrTruthy(s) == s # <<>>

\* Python's `x or d` on strings
Or(x, d) == IF StrTruthy(x) THEN x ELSE d

\* bool(x) of a float-or-None: None and 0.0 are falsy
Truthy(x) == x.tag = "float" /\ x.num # 0

Digits == {"0", "1", "2", "3", "4", "5", "6", "7", "8", "9"}

DigitVal(c) ==
    CASE c = "0" -> 0 [] c = "1" -> 1 [] c = "2" -> 2 [] c = "3" -> 3
      [] c = "4" -> 4 [] c = "5" -> 5 [] c = "6" -> 6 [] c = "7" -> 7
      [] c = "8" -> 8 [] c = "9" -> 9

AllDigits(s) == \A i \in 1..Len(s) : s[i] \in Digits

RECURSIVE DigitsVal(_)
DigitsVal(s) ==
    IF s = <<>> THEN 0
    ELSE 10 * DigitsVal(SubSeq(s, 1, Len(s) - 1)) + DigitVal(s[Len(s)])

RECURSIVE Pow10(_)
Pow10(n) == IF n = 0 THEN 1 ELSE 10 * Pow10(n - 1)

HasSign(s) == s # <<>> /\ s[1] \in {"+", "-"}
Unsigned(s) == IF HasSign(s) THEN Tail(s) ELSE s
SignOf(s) == IF s # <<>> /\ s[1] = "-" THEN -1 ELSE 1

DotAt(s) == {i \in 1..Len(s) : s[i] = "."}

\* int(s): an optional sign and one or more decimal digits, else ValueError
int(s) ==
    LET u == Unsigned(s) IN
    IF u # <<>> /\ AllDigits(u)
    THEN Ret(SignOf(s) * DigitsVal(u))
    ELSE Raise("ValueError")

\* float(s): an optional sign, decimal digits with at most one point and at
\* least one digit, else ValueError.  (Python also takes surrounding blanks,
\* an exponent, underscores, "inf" and "nan"; none occurs in the texts below.)
float(s) ==
    LET u == Unsigned(s)
        dots == DotAt(u)
    IN  IF dots = {}
        THEN IF u # <<>> /\ AllDigits(u)
             THEN Ret(Float(SignOf(s) * DigitsVal(u), 1))
             ELSE Raise("ValueError")
        ELSE LET d == CHOOSE i \in dots : TRUE
                 ip == SubSeq(u, 1, d - 1)
                 fp == SubSeq(u, d + 1, Len(u))
             IN  IF Cardinality(dots) = 1 /\ AllDigits(ip) /\ AllDigits(fp)
                    /\ Len(ip) + Len(fp) > 0
                 THEN Ret(Float(SignOf(s) * (DigitsVal(ip) * Pow10(Len(fp)) + DigitsVal(fp)),
                                Pow10(Len(fp))))
                 ELSE Raise("ValueError")

\* bmi < t/10, for a threshold written with one decimal (18.5, 24.9, 29.9)
Lt(x, tenths) == x.num * 10 < tenths * x.den

-----------------------------------------------------------------------------
(* ProfileClassifier *)

calculate_bmi_unguarded(weight, height) ==
    LET w == float(weight)
        h == float(height)
    IN  IF w.tag = "raise" THEN Raise("ValueError")
        ELSE IF h.tag = "raise" THEN Raise("ValueError")
        ELSE IF h.val.num = 0 THEN Raise("ZeroDivisionError")
        ELSE Ret(Float(w.val.num * 10000 * h.val.den * h.val.den,
                       w.val.den * h.val.num * h.val.num))

\* weight_kg / (float(height) / 100) ** 2, None when anything raises
calculate_bmi(weight, height) ==
    LET w == float(weight)
        h == float(height)
    IN  IF w.tag = "raise" \/ h.tag = "raise" THEN Ret(None)
        ELSE IF h.val.num = 0 THEN Ret(None)
        ELSE Ret(Float(w.val.num * 10000 * h.val.den * h.val.den,
                       w.val.den * h.val.num * h.val.num))

categorize_bmi_inclusive(x) ==
    IF ~Lt(x, 185) /\ x.num * 10 # 185 * x.den
    THEN IF ~Lt(x, 249) /\ x.num * 10 # 249 * x.den
         THEN IF ~Lt(x, 299) /\ x.num * 10 # 299 * x.den
              THEN <<"Obesity", "red", "Consider consulting with a healthcare provider about weight management.">>
              ELSE <<"Overweight", "orange", "Consider moderate lifestyle changes to achieve a healthier weight.">>
         ELSE <<"Normal", "green", "Your weight is within a healthy range for your height.">>
    ELSE <<"Underweight", "blue", "Consider consulting with a healthcare provider about healthy weight gain.">>

categorize_bmi_swapped(x) ==
    IF Lt(x, 185)
    THEN <<"Underweight", "blue", "Consider consulting with a healthcare provider about weight management.">>
    ELSE IF Lt(x, 249)
    THEN <<"Normal", "green", "Your weight is within a healthy range for your height.">>
    ELSE IF Lt(x, 299)
    THEN <<"Overweight", "orange", "Consider moderate lifestyle changes to achieve a healthier weight.">>
    ELSE <<"Obesity", "red", "Consider consulting with a healthcare provider about healthy weight gain.">>

categorize_bmi(x) ==
    IF Lt(x, 185)
    THEN <<"Underweight", "blue", "Consider consulting with a healthcare provider about healthy weight gain.">>
    ELSE IF Lt(x, 249)
    THEN <<"Normal", "green", "Your weight is within a healthy range for your height.">>
    ELSE IF Lt(x, 299)
    THEN <<"Overweight", "orange", "Consider moderate lifestyle changes to achieve a healthier weight.">>
    ELSE <<"Obesity", "red", "Consider consulting with a healthcare provider about weight management.">>

-----------------------------------------------------------------------------
(* RecommendationRequestBuilder *)

Lit(t) == [lit |-> t, slot |-> ""]
Slot(k) == [lit |-> "", slot |-> k]

\* the template, cut at its replacement fields
prompt_template_resto ==
    << Lit("Diet Recommendation System: ... User Profile: - Name: "), Slot("name"),
       Lit(" - Age: "), Slot("age"),
       Lit(" - Gender: "), Slot("gender"),
       Lit(" - Weight: "), Slot("weight"),
       Lit(" kg - Height: "), Slot("height"),
       Lit(" cm - Diet Preference: "), Slot("veg_or_nonveg"),
       Lit(" - Health Conditions: "), Slot("disease"),
       Lit(" - Region: "), Slot("region"),
       Lit(" - State: "), Slot("state"),
       Lit(" - Allergies: "), Slot("allergics"),
       Lit(" - Food Type Preference: "), Slot("foodtype"),
       Lit(" ... ## RESTAURANTS ... ## BREAKFAST IDEAS ... ## DINNER IDEAS ... ## WORKOUT RECOMMENDATIONS ... ## HEALTH NOTES ...") >>

\* str.format(**inputs): every replacement field becomes the value of its key
format(template, inputs) ==
    [i \in DOMAIN template |->
        IF template[i].slot = "" THEN <<template[i].lit>> ELSE inputs[template[i].slot]]

ErrorPrefix == <<"Error generating recommendations: ">>

\* The remote endpoint answers a prompt with text or raises an exception
\* carrying a message.
RemoteOutcomes ==
    { [ok |-> TRUE,  text |-> <<"## RESTAURANTS ...">>],
      [ok |-> TRUE,  text |-> <<>>],
      [ok |-> FALSE, text |-> <<"429 quota exceeded">>] }

\* result: what the function returns or raises; prompts: the calls of
\* model.generate_content it made
generate_recommendations_unguarded(inputs, outcome) ==
    LET prompt == format(prompt_template_resto, inputs) IN
    [ result  |-> IF outcome.ok THEN Ret(outcome.text) ELSE Raise(outcome.text),
      prompts |-> <<prompt>> ]

generate_recommendations_retry(inputs, outcome) ==
    LET prompt == format(prompt_template_resto, inputs) IN
    [ result  |-> IF outcome.ok THEN Ret(outcome.text)
                  ELSE Ret(ErrorPrefix \o outcome.text),
      prompts |-> IF outcome.ok THEN <<prompt>> ELSE <<prompt, prompt>> ]

generate_recommendations(inputs, outcome) ==
    LET prompt == format(prompt_template_resto, inputs) IN
    [ result  |-> IF outcome.ok THEN Ret(outcome.text)
                  ELSE Ret(ErrorPrefix \o outcome.text),
      prompts |-> <<prompt>> ]

-----------------------------------------------------------------------------
(* UsageTracker *)

capture_usage_dedup(log, user_data, t) ==
    IF \E i \in 1..Len(log) : log[i].user_age = user_data["age"]
                              /\ log[i].user_region = user_data["region"]
    THEN log
    ELSE Append(log, [timestamp |-> t, user_age |-> user_data["age"],
                      user_region |-> user_data["region"]])

\* input_data always carries "age" and "region", so .get never yields 'Unknown'
capture_usage(log, user_data, t) ==
    Append(log, [timestamp   |-> t,
                 user_age    |-> user_data["age"],
                 user_region |-> user_data["region"]])

-----------------------------------------------------------------------------
(* The form and the page *)

RequiredFields == {"name", "age", "gender", "weight", "height", "veg_or_nonveg"}
OptionalFields == {"disease", "region", "state", "allergics", "foodtype"}
Fields == RequiredFields \cup OptionalFields

\* the text the user may have typed into each st.text_input, and the options
\* of each st.selectbox
NameTexts == {<<>>, <<"Ann">>}
AgeTexts == {<<>>, <<"2", "5">>, <<"2", ".", "5">>}
GenderOptions == {<<"Male">>, <<"Other">>}
WeightTexts == {<<>>, <<"7", "0">>, <<"0">>, <<"a", "b", "c">>}
HeightTexts == {<<>>, <<"1", "7", "5">>, <<"0">>, <<"a", "b", "c">>}
DietOptions == {<<"Vegetarian">>, <<"Vegan">>}
FreeTexts == {<<>>, <<"x">>}

Forms ==
    [ name : NameTexts, age : AgeTexts, gender : GenderOptions,
      weight : WeightTexts, height : HeightTexts, veg_or_nonveg : DietOptions,
      disease : FreeTexts, region : FreeTexts, state : FreeTexts,
      allergics : FreeTexts, foodtype : FreeTexts ]

NoForm == [k \in Fields |-> <<>>]

all_required_but_name(f) == \A k \in RequiredFields \ {"name"} : StrTruthy(f[k])

\* all([name, age, gender, weight, height, veg_or_nonveg])
all_required(f) == \A k \in RequiredFields : StrTruthy(f[k])

make_input_data_no_defaults(f) == f

make_input_data(f) ==
    [ name |-> f.name, age |-> f.age, gender |-> f.gender,
      weight |-> f.weight, height |-> f.height,
      veg_or_nonveg |-> f.veg_or_nonveg,
      disease   |-> Or(f.disease, <<"None">>),
      region    |-> Or(f.region, <<"Not specified">>),
      state     |-> Or(f.state, <<"Not specified">>),
      allergics |-> Or(f.allergics, <<"None">>),
      foodtype  |-> Or(f.foodtype, <<"General">>) ]

Elem(kind, body) == [kind |-> kind, body |-> body]

KeyError == Elem("error", <<"API key not found. Please set GENAI_API_KEY in your .env file.">>)
FormElem == Elem("form", <<>>)
ValidationError == Elem("error", <<"Please fill in all required fields to generate recommendations.">>)
UsageChart == Elem("usage_chart", <<>>)
Footer == Elem("footer", <<>>)

Kinds(page) == {page[i].kind : i \in 1..Len(page)}

-----------------------------------------------------------------------------
(* The session *)

KeyValues == {None, Str(<<>>), Str(<<"k">>)}

\* `not google_api_key`: the variable is unset or empty
key_missing(k) == IF k.tag = "None" THEN TRUE ELSE ~StrTruthy(k.s)

Init ==
    /\ pc = "startup"
    /\ google_api_key \in KeyValues
    /\ now = 0
    /\ form = NoForm
    /\ usage_data = <<>>
    /\ input_data = NoForm
    /\ bmi = None
    /\ recommendations = <<>>
    /\ sent_prompt = <<>>
    /\ remote_calls = 0
    /\ remote_result = None
    /\ rendered = <<>>
    /\ fault = FALSE
    /\ submissions = 0
    /\ cat_in = Float(0, 1)
    /\ cat_out = <<>>

\* What every run of the script does after the results column: the usage
\* chart and the footer (lines 320-330).
EndOfScript(page) ==
    /\ rendered' = page \o <<UsageChart, Footer>>
    /\ pc' = "done"

\* An exception nobody catches: the run is abandoned where it is and the
\* page shows the exception.
Abort(page, e) ==
    /\ rendered' = Append(page, Elem("exception", <<e>>))
    /\ fault' = TRUE
    /\ pc' = "done"

StartupNoStop ==
    /\ pc = "startup"
    /\ IF key_missing(google_api_key)
       THEN EndOfScript(<<KeyError, FormElem>>)
       ELSE EndOfScript(<<FormElem>>)
    /\ UNCHANGED <<google_api_key, now, form, usage_data, input_data, bmi,
                   recommendations, sent_prompt, remote_calls, remote_result,
                   fault, submissions, cat_in, cat_out>>

\* The first run of the script: the key check, then the page without a
\* submission (submit_button is False).
Startup ==
    /\ pc = "startup"
    /\ IF key_missing(google_api_key)
       THEN /\ rendered' = <<KeyError>>
            /\ pc' = "halted"
       ELSE EndOfScript(<<FormElem>>)
    /\ UNCHANGED <<google_api_key, now, form, usage_data, input_data, bmi,
                   recommendations, sent_prompt, remote_calls, remote_result,
                   fault, submissions, cat_in, cat_out>>

\* The run of the script is over: its locals are gone, the session state
\* stays, and the page waits for the next submission.
ScriptEnd ==
    /\ pc = "done"
    /\ pc' = "form"
    /\ form' = NoForm
    /\ input_data' = NoForm
    /\ bmi' = None
    /\ recommendations' = <<>>
    /\ sent_prompt' = <<>>
    /\ remote_result' = None
    /\ rendered' = <<>>
    /\ fault' = FALSE
    /\ UNCHANGED <<google_api_key, now, usage_data, remote_calls, submissions,
                   cat_in, cat_out>>

\* The user fills the form and presses the button: the script runs again
\* from the top (the key is still there), up to `if submit_button:`.
Submit ==
    /\ pc = "form"
    /\ now < MaxSubmits
    /\ now' = now + 1
    /\ form' \in Forms
    /\ rendered' = <<FormElem>>
    /\ pc' = "validate"
    /\ UNCHANGED <<google_api_key, usage_data, input_data, bmi,
                   recommendations, sent_prompt, remote_calls, remote_result,
                   fault, submissions, cat_in, cat_out>>

\* Lines 253-264 and 315-318: the required-field test, input_data and
\* capture_usage, or the error message.
Validate ==
    /\ pc = "validate"
    /\ IF all_required(form)
       THEN /\ input_data' = make_input_data(form)
            /\ usage_data' = capture_usage(usage_data, input_data', now)
            /\ submissions' = submissions + 1
            /\ pc' = "bmi"
            /\ UNCHANGED rendered
       ELSE /\ EndOfScript(Append(rendered, ValidationError))
            /\ UNCHANGED <<input_data, usage_data, submissions>>
    /\ UNCHANGED <<google_api_key, now, form, bmi, recommendations,
                   sent_prompt, remote_calls, remote_result, fault,
                   cat_in, cat_out>>

\* Line 267
CalculateBmi ==
    /\ pc = "bmi"
    /\ LET r == calculate_bmi(form.weight, form.height) IN
       IF r.tag = "raise"
       THEN /\ Abort(rendered, r.val)
            /\ UNCHANGED bmi
       ELSE /\ bmi' = r.val
            /\ pc' = "generate"
            /\ UNCHANGED <<rendered, fault>>
    /\ UNCHANGED <<google_api_key, now, form, usage_data, input_data,
                   recommendations, sent_prompt, remote_calls, remote_result,
                   submissions, cat_in, cat_out>>

\* Line 270; the remote endpoint answers with `outcome`
Generate ==
    /\ pc = "generate"
    /\ \E outcome \in RemoteOutcomes :
       LET g == generate_recommendations(input_data, outcome) IN
       /\ sent_prompt' = sent_prompt \o g.prompts
       /\ remote_calls' = remote_calls + Len(g.prompts)
       /\ remote_result' = outcome
       /\ IF g.result.tag = "raise"
          THEN /\ Abort(rendered, "Exception")
               /\ UNCHANGED recommendations
          ELSE /\ recommendations' = g.result.val
               /\ pc' = "render"
               /\ UNCHANGED <<rendered, fault>>
    /\ UNCHANGED <<google_api_key, now, form, usage_data, input_data, bmi,
                   submissions, cat_in, cat_out>>

bmi_panel(b) ==
    LET c == categorize_bmi(b) IN Elem("bmi", <<c[1], c[3]>>)

\* Lines 273-290: the greeting, the BMI panel `if bmi:`, the recommendations
results(f, b, recs) ==
    <<Elem("header", f.name)>>
    \o (IF Truthy(b) THEN <<bmi_panel(b)>> ELSE <<>>)
    \o <<Elem("recommendations", recs)>>

Render ==
    /\ pc = "render"
    /\ rendered' = rendered \o results(form, bmi, recommendations)
    /\ pc' = "chart"
    /\ UNCHANGED <<google_api_key, now, form, usage_data, input_data, bmi,
                   recommendations, sent_prompt, remote_calls, remote_result,
                   fault, submissions, cat_in, cat_out>>

\* Lines 293-314: x=[int(age)], y=[float(weight)] of the 3D scatter `if bmi:`
chart_point(f) ==
    LET x == int(f.age)
        y == float(f.weight)
    IN  IF x.tag = "raise" THEN x
        ELSE IF y.tag = "raise" THEN y
        ELSE Ret(<<x.val, y.val>>)

Chart ==
    /\ pc = "chart"
    /\ IF Truthy(bmi)
       THEN LET p == chart_point(form) IN
            IF p.tag = "raise"
            THEN Abort(Append(rendered, Elem("chart_header", <<>>)), p.val)
            ELSE /\ EndOfScript(rendered \o <<Elem("chart_header", <<>>),
                                              Elem("bmi_chart", <<>>)>>)
                 /\ UNCHANGED fault
       ELSE /\ EndOfScript(rendered)
            /\ UNCHANGED fault
    /\ UNCHANGED <<google_api_key, now, form, usage_data, input_data, bmi,
                   recommendations, sent_prompt, remote_calls, remote_result,
                   submissions, cat_in, cat_out>>

Next ==
    \/ Startup
    \/ Submit
    \/ Validate
    \/ CalculateBmi
    \/ Generate
    \/ Render
    \/ Chart
    \/ ScriptEnd

Spec == Init /\ [][Next]_vars

-----------------------------------------------------------------------------
(* categorize_bmi on its own: every bmi with two decimals in the range *)

BmiInputs == {Float(h, 100) : h \in -MinBmiHundredths..MaxBmiHundredths}

InitCat ==
    /\ pc = "startup"
    /\ google_api_key = Str(<<"k">>)
    /\ now = 0
    /\ form = NoForm
    /\ usage_data = <<>>
    /\ input_data = NoForm
    /\ bmi = None
    /\ recommendations = <<>>
    /\ sent_prompt = <<>>
    /\ remote_calls = 0
    /\ remote_result = None
    /\ rendered = <<>>
    /\ fault = FALSE
    /\ submissions = 0
    /\ cat_in \in BmiInputs
    /\ cat_out = <<>>

Categorize ==
    /\ cat_out = <<>>
    /\ cat_out' = categorize_bmi(cat_in)
    /\ UNCHANGED <<session_vars, cat_in>>

NextCat == Categorize

SpecCat == InitCat /\ [][NextCat]_vars

-----------------------------------------------------------------------------
(* Properties *)

ResultKinds == {"header", "bmi", "recommendations", "chart_header", "bmi_chart"}

\* a required field of the submitted form is empty
SomeRequiredEmpty ==
    \/ form.name = <<>> \/ form.age = <<>> \/ form.gender = <<>>
    \/ form.weight = <<>> \/ form.height = <<>> \/ form.veg_or_nonveg = <<>>

\* the current run is handling a submission that passed validation
Accepted == pc \in {"bmi", "generate", "render", "chart", "done"} /\ ~SomeRequiredEmpty

\* the remote call of the current run has been made
Called == sent_prompt # <<>>

RecsShown == \E i \in 1..Len(rendered) : rendered[i] = Elem("recommendations", recommendations)

\* C1: a submission with an empty required field ends, in the one step that
\* handles it, with the validation error in place of results, the usage log
\* and the count of remote calls as they were and no call made by the run.
C1_ValidationShortCircuit ==
    /\ [][ (pc = "validate" /\ SomeRequiredEmpty) =>
             /\ usage_data' = usage_data
             /\ remote_calls' = remote_calls
             /\ sent_prompt' = <<>>
             /\ pc' = "done"
             /\ rendered' = <<FormElem, ValidationError, UsageChart, Footer>> ]_vars
    /\ [](pc = "done" /\ SomeRequiredEmpty => Kinds(rendered) \cap ResultKinds = {} /\ ~Called)

C1_Witness ==
    /\ pc = "done"
    /\ form.name = <<>> /\ form.age # <<>> /\ form.weight # <<>> /\ form.height # <<>>
    /\ rendered = <<FormElem, ValidationError, UsageChart, Footer>>
    /\ usage_data # <<>>

\* C2: once the remote call has been made the run has not been aborted by it:
\* a failed call leaves in recommendations the prefix "Error generating
\* recommendations: " followed by the exception's message, a successful call
\* the model's text unchanged, and from the rendering step on that string is
\* on the page as the recommendations.
C2_RemoteFailureContained ==
    Called =>
        /\ pc \in {"render", "chart", "done"}
        /\ ~remote_result.ok =>
              /\ Len(recommendations) = Len(ErrorPrefix) + Len(remote_result.text)
              /\ SubSeq(recommendations, 1, Len(ErrorPrefix)) = ErrorPrefix
              /\ SubSeq(recommendations, Len(ErrorPrefix) + 1, Len(recommendations))
                    = remote_result.text
        /\ remote_result.ok => recommendations = remote_result.text
        /\ pc \in {"chart", "done"} => RecsShown
        /\ pc = "render" => ~fault

C2_Witness ==
    /\ pc = "done"
    /\ Called
    /\ ~remote_result.ok
    /\ RecsShown
    /\ recommendations = <<"Error generating recommendations: ", "429 quota exceeded">>

\* C3: categorize_bmi gives Underweight below 18.5, Normal from 18.5 to below
\* 24.9, Overweight from 24.9 to below 29.9 and Obesity from 29.9 on (bmi in
\* hundredths: 1850, 2490, 2990), so each threshold itself is in the higher
\* category.
C3_Partition ==
    cat_out # <<>> =>
        LET h == cat_in.num
            c == cat_out[1]
        IN  /\ cat_in.den = 100
            /\ c \in {"Underweight", "Normal", "Overweight", "Obesity"}
            /\ (c = "Underweight") = (h < 1850)
            /\ (c = "Normal") = (1850 <= h /\ h < 2490)
            /\ (c = "Overweight") = (2490 <= h /\ h < 2990)
            /\ (c = "Obesity") = (h >= 2990)

C3_Witness == cat_in = Float(2990, 100) /\ cat_out # <<>> /\ cat_out[1] = "Obesity"

\* C4: when float() rejects the weight or the height, bmi is None, no BMI
\* panel and no BMI chart is on the page, the remote call is made once and
\* its result is rendered, and the run has no fault; and when the remote
\* call failed, the BMI panel is on the page whenever bmi passes the
\* handler's `if bmi:` test.
C4_BmiAndRecommendationsIndependent ==
    (Accepted /\ pc \in {"chart", "done"}) =>
        /\ (float(form.weight).tag = "raise" \/ float(form.height).tag = "raise") =>
              /\ bmi = None
              /\ Kinds(rendered) \cap {"bmi", "chart_header", "bmi_chart"} = {}
              /\ Len(sent_prompt) = 1
              /\ RecsShown
              /\ ~fault
        /\ (Called /\ ~remote_result.ok /\ Truthy(bmi)) =>
              /\ "bmi" \in Kinds(rendered)
              /\ RecsShown

C4_Witness ==
    /\ pc = "done"
    /\ form.weight = <<"a", "b", "c">>
    /\ form.height = <<"1", "7", "5">>
    /\ Called
    /\ RecsShown
    /\ "bmi" \notin Kinds(rendered)

\* the value the prompt of the run carries in the replacement field k
PromptField(k) ==
    LET i == CHOOSE j \in DOMAIN prompt_template_resto : prompt_template_resto[j].slot = k
    IN  sent_prompt[1][i]

\* C5: the prompt sent for an accepted submission carries every required
\* field as typed, every non-blank optional field as typed, and for a blank
\* optional field its default: health conditions "None", region "Not
\* specified", state "Not specified", allergies "None", cuisine "General".
C5_PromptDefaults ==
    Called =>
        /\ \A k \in RequiredFields : PromptField(k) = form[k]
        /\ \A k \in OptionalFields : form[k] # <<>> => PromptField(k) = form[k]
        /\ form.disease = <<>> => PromptField("disease") = <<"None">>
        /\ form.region = <<>> => PromptField("region") = <<"Not specified">>
        /\ form.state = <<>> => PromptField("state") = <<"Not specified">>
        /\ form.allergics = <<>> => PromptField("allergics") = <<"None">>
        /\ form.foodtype = <<>> => PromptField("foodtype") = <<"General">>

C5_Witness ==
    /\ Called
    /\ \A k \in OptionalFields \ {"allergics"} : form[k] = <<>>
    /\ form.allergics = <<"x">>
    /\ PromptField("region") = <<"Not specified">>
    /\ PromptField("allergics") = <<"x">>

\* C6: the usage log changes only when a submission passes validation, and
\* then by one record {timestamp, age, region} added at its end, whatever the
\* log already holds; its length is the number of accepted submissions.
C6_UsageLogAppendOnly ==
    /\ [][ IF pc = "validate" /\ ~SomeRequiredEmpty
           THEN usage_data' = usage_data \o
                    << [ timestamp   |-> now,
                         user_age    |-> form.age,
                         user_region |-> IF form.region = <<>>
                                         THEN <<"Not specified">> ELSE form.region ] >>
           ELSE usage_data' = usage_data ]_vars
    /\ [](Len(usage_data) = submissions)

C6_Witness ==
    /\ Len(usage_data) = 2
    /\ usage_data[1].user_age = usage_data[2].user_age
    /\ usage_data[1].user_region = usage_data[2].user_region
    /\ usage_data[1].timestamp < usage_data[2].timestamp

\* C7: a run makes no remote call before validation has passed and the BMI is
\* computed, exactly one from then on whether the call failed or not, none at
\* all when validation failed; results are on the page only after the call;
\* and the session's calls are one per accepted submission.
C7_ExactlyOneRemoteCall ==
    /\ pc \in {"startup", "halted", "form", "validate", "bmi", "generate"} =>
          /\ sent_prompt = <<>>
          /\ Kinds(rendered) \cap ResultKinds = {}
    /\ pc \in {"render", "chart"} => Len(sent_prompt) = 1
    /\ pc = "done" => Len(sent_prompt) = (IF SomeRequiredEmpty THEN 0 ELSE 1)
    /\ Kinds(rendered) \cap ResultKinds # {} => Len(sent_prompt) = 1
    /\ remote_calls = submissions - (IF pc \in {"bmi", "generate"} THEN 1 ELSE 0)

C7_Witness ==
    /\ pc = "done"
    /\ Len(sent_prompt) = 1
    /\ ~remote_result.ok
    /\ remote_calls = 2

SpecMessage(c) ==
    CASE c = "Underweight" -> "Consider consulting a healthcare provider about healthy weight gain."
      [] c = "Normal" -> "Your weight is within a healthy range for your height."
      [] c = "Overweight" -> "Consider moderate lifestyle changes to achieve a healthier weight."
      [] c = "Obesity" -> "Consider consulting a healthcare provider about weight management."

CodeMessage(c) ==
    CASE c = "Underweight" -> "Consider consulting with a healthcare provider about healthy weight gain."
      [] c = "Normal" -> "Your weight is within a healthy range for your height."
      [] c = "Overweight" -> "Consider moderate lifestyle changes to achieve a healthier weight."
      [] c = "Obesity" -> "Consider consulting with a healthcare provider about weight management."

\* C8 as stated: the message returned with each category is the one the
\* specification quotes for it.
C8_MessagesAsStated == cat_out # <<>> => cat_out[3] = SpecMessage(cat_out[1])

\* C8 as amended: the message returned with each category is Underweight ->
\* "Consider consulting with a healthcare provider about healthy weight
\* gain.", Normal -> "Your weight is within a healthy range for your height.",
\* Overweight -> "Consider moderate lifestyle changes to achieve a healthier
\* weight.", Obesity -> "Consider consulting with a healthcare provider about
\* weight management."
C8_MessagesAmended == cat_out # <<>> => cat_out[3] = CodeMessage(cat_out[1])

C8_Witness ==
    /\ cat_out # <<>>
    /\ cat_out[1] = "Obesity"
    /\ cat_out[3] = "Consider consulting with a healthcare provider about weight management."

\* C9: with GENAI_API_KEY unset or empty the script shows the error and
\* stops: the form is never rendered, no submission is handled, no remote
\* call is made and no usage record is written.
C9_MissingKeyHalts ==
    (google_api_key = None \/ google_api_key = Str(<<>>)) =>
        /\ pc \in {"startup", "halted"}
        /\ pc = "halted" => rendered = <<KeyError>>
        /\ pc = "startup" => rendered = <<>>
        /\ now = 0 /\ form = NoForm
        /\ remote_calls = 0 /\ sent_prompt = <<>>
        /\ usage_data = <<>>

C9_Witness == pc = "halted" /\ google_api_key = None /\ rendered = <<KeyError>>

\* C10 as stated: every submission that passed validation reaches the end of
\* the script (the footer is rendered) without an unhandled exception.
C10_NoUnhandledFault ==
    (pc = "done" /\ ~SomeRequiredEmpty) =>
        /\ ~fault
        /\ rendered[Len(rendered)] = Footer

====
